---- MODULE Spec2Model ----
(***************************************************************************)
(* Model of the Elasticsearch log provider of WatchAlert                   *)
(* (pkg/provider/logs_elasticsearch.go): the translation of a              *)
(* LogQueryOptions value into an Elasticsearch query, the normalisation of *)
(* the hits into one Logs batch, and the health probe Check.               *)
(*                                                                         *)
(* Strings that the code only compares or passes on are TLA+ strings.      *)
(* Strings the code builds character by character (wildcard patterns,      *)
(* credentials) are sequences, so that building them is a computation.     *)
(* A formatted message (fmt.Errorf, fmt.Sprintf) is the sequence of its    *)
(* literal parts and formatted arguments.  The two messages the source     *)
(* writes in Chinese are given in English, TLA+ strings being ASCII.       *)
(***************************************************************************)
EXTENDS Integers, Sequences, FiniteSets, TLC

VARIABLES e, pc, options, request, reply, ret

vars == <<e, pc, options, request, reply, ret>>

(***************************************************************************)
(* Bounds of the model.                                                    *)
(***************************************************************************)
MaxFilters == 2   \* longest QueryFilter sequence
MaxHits == 2      \* most hits in one search response
MaxTs == 2        \* StartAt and EndAt range over the timestamps 1..MaxTs

(***************************************************************************)
(* Values of the enumerations of internal/models.                          *)
(***************************************************************************)
EsQueryTypeRawJson == "RawJson"
EsQueryTypeField == "Field"
EsFilterConditionOr == "Or"
EsFilterConditionAnd == "And"
EsFilterConditionNot == "Not"

ElasticSearchDsProviderName == "ElasticSearch"

(***************************************************************************)
(* Input domains.                                                          *)
(***************************************************************************)
Fields == {"level", "service"}
FilterValues == {<<"a">>, <<"b">>}
DocValues == {<<"a">>, <<"b">>, <<"a", "b">>}

\* A stored document: its @timestamp and its fields.
Docs == [ts : 0..(MaxTs + 1), level : DocValues, service : DocValues]

\* StartAt and EndAt are interface{} values: a string timestamp, nil, or a
\* value of another dynamic type.
StringTime(n) == [type |-> "string", v |-> n]
NilTime == [type |-> "nil", v |-> 0]
IntTime == [type |-> "int", v |-> 1]
TimeVals == {StringTime(n) : n \in 1..MaxTs} \cup {NilTime, IntTime}

Filters == [Field : Fields, Value : FilterValues]
FilterSeqs == UNION {[1..n -> Filters] : n \in 0..MaxFilters}

RawBody == "{\"match_all\":{}}"

FieldOptions ==
    [QueryType : {EsQueryTypeField}, RawJson : {""}, Index : {"app-log"},
     QueryFilter : FilterSeqs, QueryWildcard : 0..2,
     QueryFilterCondition : {EsFilterConditionOr, EsFilterConditionAnd,
                             EsFilterConditionNot, "Xor"},
     StartAt : TimeVals, EndAt : TimeVals]

OtherOptions ==
    [QueryType : {EsQueryTypeRawJson, "Sql"}, RawJson : {"", RawBody},
     Index : {"app-log"}, QueryFilter : {<<>>}, QueryWildcard : {0, 2},
     QueryFilterCondition : {EsFilterConditionAnd},
     StartAt : {StringTime(1), NilTime}, EndAt : {StringTime(MaxTs)}]

LogQueryOptions == FieldOptions \cup OtherOptions

NoOptions == [QueryType |-> "none"]

\* Credentials are byte strings.
Usernames == {<<>>, <<117>>, <<117, 115>>}
Passwords == {<<>>, <<112>>}
AlertDataSource == [URL : {"http://es:9200"}, User : Usernames, Pass : Passwords,
                    Labels : {"env=prod"}]

(***************************************************************************)
(* Errors.                                                                 *)
(***************************************************************************)
NilError == [isNil |-> TRUE, msg |-> <<>>]
Error(msg) == [isNil |-> FALSE, msg |-> msg]

Digit(d) ==
    CASE d = 0 -> "0" [] d = 1 -> "1" [] d = 2 -> "2" [] d = 3 -> "3"
      [] d = 4 -> "4" [] d = 5 -> "5" [] d = 6 -> "6" [] d = 7 -> "7"
      [] d = 8 -> "8" [] d = 9 -> "9"

\* The %d verb, for a non-negative integer.
RECURSIVE FormatInt(_)
FormatInt(n) == IF n < 10 THEN Digit(n) ELSE FormatInt(n \div 10) \o Digit(n % 10)

(***************************************************************************)
(* Query objects of github.com/olivere/elastic/v7, as the provider builds  *)
(* them.                                                                   *)
(***************************************************************************)
NewRawStringQuery(body) == [kind |-> "raw", body |-> body]
NewMatchQuery(field, value) == [kind |-> "match", field |-> field, value |-> value]
NewWildcardQuery(field, pattern) ==
    [kind |-> "wildcard", field |-> field, pattern |-> pattern]
NewRangeQuery(field, gte, lte) ==
    [kind |-> "range", field |-> field, gte |-> gte, lte |-> lte]
NewBoolQuery ==
    [kind |-> "bool", must |-> <<>>, should |-> <<>>, mustNot |-> <<>>,
     minimumShouldMatch |-> <<>>]
Must(q, queries) == [q EXCEPT !.must = @ \o queries]
Should(q, queries) == [q EXCEPT !.should = @ \o queries]
MustNot(q, queries) == [q EXCEPT !.mustNot = @ \o queries]
MinimumNumberShouldMatch(q, n) == [q EXCEPT !.minimumShouldMatch = <<n>>]

(***************************************************************************)
(* What Elasticsearch does with such a query: whether a document matches.  *)
(***************************************************************************)
\* A wildcard pattern against a whole field value: * is any run of
\* characters, ? is any one character.
RECURSIVE Glob(_, _)
Glob(p, s) ==
    IF p = <<>> THEN s = <<>>
    ELSE IF Head(p) = "*" THEN Glob(Tail(p), s) \/ (s # <<>> /\ Glob(p, Tail(s)))
    ELSE s # <<>> /\ (Head(p) = "?" \/ Head(p) = Head(s)) /\ Glob(Tail(p), Tail(s))

\* The threshold on should clauses: the one set, else 1 when the bool query
\* has should clauses and no must clause, else 0.
ShouldThreshold(q) ==
    IF q.minimumShouldMatch # <<>> THEN q.minimumShouldMatch[1]
    ELSE IF q.should # <<>> /\ q.must = <<>> THEN 1 ELSE 0

\* Fields are keyword fields: a match clause matches the whole value, a
\* wildcard clause matches its pattern against the whole value, and the
\* range clause compares timestamps.
RECURSIVE Matches(_, _)
Matches(q, d) ==
    CASE q.kind = "match" -> d[q.field] = q.value
      [] q.kind = "wildcard" -> Glob(q.pattern, d[q.field])
      [] q.kind = "range" -> d.ts >= q.gte /\ d.ts <= q.lte
      [] q.kind = "bool" ->
            /\ \A i \in DOMAIN q.must : Matches(q.must[i], d)
            /\ \A i \in DOMAIN q.mustNot : ~Matches(q.mustNot[i], d)
            /\ Cardinality({i \in DOMAIN q.should : Matches(q.should[i], d)})
                  >= ShouldThreshold(q)

(***************************************************************************)
(* Query: translation of the options (lines 46-91).                        *)
(***************************************************************************)
NoQuery == [kind |-> "none"]

GetIndexName(o) == o.Index

\* A variant of SubQuery whose switch has no default case: any other mode
\* is taken as the substring mode.
SubQuery_NoDefault(wildcard, filter) ==
    IF wildcard = 0
      THEN [err |-> NilError, q |-> NewMatchQuery(filter.Field, filter.Value)]
    ELSE [err |-> NilError,
          q |-> NewWildcardQuery(filter.Field, <<"*">> \o filter.Value \o <<"*">>)]

\* Lines 60-70: the clause of one filter.
SubQuery(wildcard, filter) ==
    IF wildcard = 0
      THEN [err |-> NilError, q |-> NewMatchQuery(filter.Field, filter.Value)]
    ELSE IF wildcard = 1
      THEN [err |-> NilError,
            q |-> NewWildcardQuery(filter.Field, <<"*">> \o filter.Value \o <<"*">>)]
    ELSE [err |-> Error(<<"undefined QueryWildcard">>), q |-> NoQuery]

\* Lines 58-72: the loop over the filters; it returns at the first error.
SubQueries(wildcard, filters) ==
    LET sub == [i \in DOMAIN filters |-> SubQuery(wildcard, filters[i])]
        bad == {i \in DOMAIN filters : ~sub[i].err.isNil}
    IN  IF bad # {}
          THEN [err |-> sub[CHOOSE i \in bad : \A j \in bad : i <= j].err,
                qs |-> <<>>]
          ELSE [err |-> NilError, qs |-> [i \in DOMAIN filters |-> sub[i].q]]

\* A variant of ApplyFilterCondition whose Not excludes only the documents
\* that match all the filters.
ApplyFilterCondition_NotAll(cond, conditionQuery, subQueries) ==
    IF cond = EsFilterConditionOr
      THEN [err |-> NilError,
            q |-> MinimumNumberShouldMatch(Should(conditionQuery, subQueries), 1)]
    ELSE IF cond = EsFilterConditionAnd
      THEN [err |-> NilError, q |-> Must(conditionQuery, subQueries)]
    ELSE IF cond = EsFilterConditionNot
      THEN [err |-> NilError,
            q |-> MustNot(conditionQuery, <<Must(NewBoolQuery, subQueries)>>)]
    ELSE [err |-> Error(<<"undefined QueryFilterCondition">>), q |-> NoQuery]

\* A variant of ApplyFilterCondition whose Or sets no minimum on the should
\* clauses.
ApplyFilterCondition_NoMinimum(cond, conditionQuery, subQueries) ==
    IF cond = EsFilterConditionOr
      THEN [err |-> NilError, q |-> Should(conditionQuery, subQueries)]
    ELSE IF cond = EsFilterConditionAnd
      THEN [err |-> NilError, q |-> Must(conditionQuery, subQueries)]
    ELSE IF cond = EsFilterConditionNot
      THEN [err |-> NilError, q |-> MustNot(conditionQuery, subQueries)]
    ELSE [err |-> Error(<<"undefined QueryFilterCondition">>), q |-> NoQuery]

\* A variant of ApplyFilterCondition whose And builds the clauses of Or.
ApplyFilterCondition_AndAsOr(cond, conditionQuery, subQueries) ==
    IF cond = EsFilterConditionOr \/ cond = EsFilterConditionAnd
      THEN [err |-> NilError,
            q |-> MinimumNumberShouldMatch(Should(conditionQuery, subQueries), 1)]
    ELSE IF cond = EsFilterConditionNot
      THEN [err |-> NilError, q |-> MustNot(conditionQuery, subQueries)]
    ELSE [err |-> Error(<<"undefined QueryFilterCondition">>), q |-> NoQuery]

\* Lines 73-85: the combinator.
ApplyFilterCondition(cond, conditionQuery, subQueries) ==
    IF cond = EsFilterConditionOr
      THEN [err |-> NilError,
            q |-> MinimumNumberShouldMatch(Should(conditionQuery, subQueries), 1)]
    ELSE IF cond = EsFilterConditionAnd
      THEN [err |-> NilError, q |-> Must(conditionQuery, subQueries)]
    ELSE IF cond = EsFilterConditionNot
      THEN [err |-> NilError, q |-> MustNot(conditionQuery, subQueries)]
    ELSE [err |-> Error(<<"undefined QueryFilterCondition">>), q |-> NoQuery]

\* Line 87: the type assertions options.StartAt.(string) and
\* options.EndAt.(string) panic on any other dynamic type, nil included.
IsString(v) == v.type = "string"

\* A variant of AppendTimeRange that adds the time range to the should
\* clauses.
AppendTimeRange_Should(conditionQuery, startAt, endAt) ==
    Should(conditionQuery, <<NewRangeQuery("@timestamp", startAt.v, endAt.v)>>)

\* Line 87: the time range is added to the must clauses of the bool query.
AppendTimeRange(conditionQuery, startAt, endAt) ==
    Must(conditionQuery, <<NewRangeQuery("@timestamp", startAt.v, endAt.v)>>)

Built(q) == [status |-> "ok", err |-> NilError, q |-> q]
Failed(err) == [status |-> "err", err |-> err, q |-> NoQuery]
Panicked == [status |-> "panic", err |-> NilError, q |-> NoQuery]

\* A variant of RawJsonQuery without the test for an empty payload.
RawJsonQuery_Unchecked(o) == Built(NewRawStringQuery(o.RawJson))

\* Lines 51-54.
RawJsonQuery(o) ==
    IF o.RawJson = "" THEN Failed(Error(<<"RawJson is empty">>))
    ELSE Built(NewRawStringQuery(o.RawJson))

\* Lines 56-86: the filter group, built only when there are filters.
FilterGroup(o) ==
    IF Len(o.QueryFilter) > 0
      THEN LET subs == SubQueries(o.QueryWildcard, o.QueryFilter)
           IN  IF ~subs.err.isNil THEN [err |-> subs.err, q |-> NoQuery]
               ELSE ApplyFilterCondition(o.QueryFilterCondition, NewBoolQuery, subs.qs)
      ELSE [err |-> NilError, q |-> NewBoolQuery]

\* Lines 56-88.
FieldQuery(o) ==
    LET group == FilterGroup(o)
    IN  IF ~group.err.isNil THEN Failed(group.err)
        ELSE IF ~(IsString(o.StartAt) /\ IsString(o.EndAt)) THEN Panicked
        ELSE Built(AppendTimeRange(group.q, o.StartAt, o.EndAt))

\* Lines 49-91: the switch on the query type.
BuildQuery(o) ==
    IF o.QueryType = EsQueryTypeRawJson THEN RawJsonQuery(o)
    ELSE IF o.QueryType = EsQueryTypeField THEN FieldQuery(o)
    ELSE Failed(Error(<<"undefined QueryType, type: ", o.QueryType>>))

(***************************************************************************)
(* Query: normalisation of the search response (lines 102-126).            *)
(***************************************************************************)
NilMap == [isNil |-> TRUE]

\* The _source of a hit is a JSON value: an object, null, or (a response the
\* provider cannot decode) a value of another JSON type.
HitDocs ==
    {[ts |-> 1, level |-> <<"a">>, service |-> <<"b">>],
     [ts |-> 2, level |-> <<"a">>, service |-> <<"a", "b">>]}
HitSources ==
    {[kind |-> "object", doc |-> d] : d \in HitDocs}
      \cup {[kind |-> "null", doc |-> NilMap], [kind |-> "string", doc |-> NilMap]}
HitSeqs == UNION {[1..n -> HitSources] : n \in 0..MaxHits}

\* A search hit carries backend metadata next to its source.
SearchHit(index, i, source) == [_index |-> index, _id |-> i, _source |-> source]

\* Line 103: json.Marshal(res.Hits.Hits) keeps the hits in order, one JSON
\* object per hit.
Marshal(hits) == [i \in DOMAIN hits |-> hits[i]]

\* Lines 41-43, 107: decoding one JSON hit into esQueryResponse keeps the
\* _source key only; an object becomes a map, null leaves the map nil, any
\* other JSON type is an error.
UnmarshalHit(j) ==
    IF j._source.kind = "object" THEN [err |-> NilError, Source |-> j._source.doc]
    ELSE IF j._source.kind = "null" THEN [err |-> NilError, Source |-> NilMap]
    ELSE [err |-> Error(<<"json: cannot unmarshal ", j._source.kind,
                          " into Go struct field esQueryResponse._source">>),
          Source |-> NilMap]

\* Line 107: json.Unmarshal into []esQueryResponse.
Unmarshal(js) ==
    LET dec == [i \in DOMAIN js |-> UnmarshalHit(js[i])]
        bad == {i \in DOMAIN js : ~dec[i].err.isNil}
    IN  IF bad # {}
          THEN [err |-> dec[CHOOSE i \in bad : \A j \in bad : i <= j].err,
                response |-> <<>>]
          ELSE [err |-> NilError, response |-> [i \in DOMAIN js |-> [Source |-> dec[i].Source]]]

\* A variant of Messages that leaves out the hits whose source is nil.
HasSource(m) == m # NilMap
Messages_SkipNil(response) ==
    SelectSeq([i \in DOMAIN response |-> response[i].Source], HasSource)

\* Lines 116-118: the messages, one per decoded hit.
Messages(response) == [i \in DOMAIN response |-> response[i].Source]

\* Line 126: the count returned.
HitCount(response) == Len(response)

\* The label summary of a batch: the fields on which all its documents agree.
commonKeyValuePairs(msgs) ==
    LET keys == {f \in Fields : /\ msgs # <<>>
                                /\ \A i \in DOMAIN msgs : msgs[i] # NilMap
                                /\ \A i \in DOMAIN msgs : msgs[i][f] = msgs[1][f]}
    IN  [f \in keys |-> msgs[1][f]]

QueryReturn(data, count, err) ==
    [kind |-> "Query", data |-> data, count |-> count, err |-> err]

\* Lines 98-126: what Query returns for a backend outcome.
Normalize(outcome) ==
    IF outcome.kind = "err" THEN QueryReturn(<<>>, 0, outcome.err)
    ELSE LET u == Unmarshal(Marshal(outcome.hits))
         IN  IF ~u.err.isNil THEN QueryReturn(<<>>, 0, u.err)
             ELSE LET msgs == Messages(u.response)
                  IN  QueryReturn(<<[ProviderName |-> ElasticSearchDsProviderName,
                                     Metric |-> commonKeyValuePairs(msgs),
                                     Message |-> msgs]>>,
                                  HitCount(u.response), NilError)

(***************************************************************************)
(* Check (lines 129-147).                                                  *)
(***************************************************************************)
\* The alphabet of base64.StdEncoding, and its padding character.
encodeStd ==
    <<
      "A", "B", "C", "D", "E", "F", "G", "H", "I", "J", "K", "L", "M", "N", "O", "P",
      "Q", "R", "S", "T", "U", "V", "W", "X", "Y", "Z", "a", "b", "c", "d", "e", "f",
      "g", "h", "i", "j", "k", "l", "m", "n", "o", "p", "q", "r", "s", "t", "u", "v",
      "w", "x", "y", "z", "0", "1", "2", "3", "4", "5", "6", "7", "8", "9", "+", "/"
    >>

StdPadding == "="

\* The character of a 6-bit value.
Sextet(n) == encodeStd[n + 1]

\* base64.StdEncoding.EncodeToString, on a sequence of bytes.
RECURSIVE EncodeToString(_)
EncodeToString(b) ==
    IF Len(b) = 0 THEN <<>>
    ELSE IF Len(b) = 1
      THEN <<Sextet(b[1] \div 4), Sextet((b[1] % 4) * 16), StdPadding, StdPadding>>
    ELSE IF Len(b) = 2
      THEN <<Sextet(b[1] \div 4), Sextet(((b[1] % 4) * 16) + (b[2] \div 16)),
             Sextet((b[2] % 16) * 4), StdPadding>>
    ELSE <<Sextet(b[1] \div 4), Sextet(((b[1] % 4) * 16) + (b[2] \div 16)),
           Sextet(((b[2] % 16) * 4) + (b[3] \div 64)), Sextet(b[3] % 64)>>
           \o EncodeToString(SubSeq(b, 4, Len(b)))

Colon == <<58>>

\* A variant of HasCredentials that asks for a password too.
HasCredentials_Both(username, password) == username # <<>> /\ password # <<>>

\* Line 132: the condition under which the header is attached.
HasCredentials(username, password) == username # <<>>

\* Lines 133-134.
BasicAuth(username, password) ==
    <<"Basic ">> \o EncodeToString(username \o Colon \o password)

\* Lines 130-137: the header map and the url of the health request.
CheckRequest(a) ==
    [kind |-> "get",
     header |-> IF HasCredentials(a.username, a.password)
                  THEN ("Authorization" :> BasicAuth(a.username, a.password))
                  ELSE <<>>,
     url |-> <<a.url, "/_cat/health">>,
     timeout |-> 10]

StatusCodes == {200, 201, 401, 500}

\* A variant of IsHealthy that accepts every 2xx status.
IsHealthy_Any2xx(statusCode) == statusCode >= 200 /\ statusCode < 300

\* Line 143.
IsHealthy(statusCode) == statusCode = 200

CheckReturn(ok, err) == [kind |-> "Check", ok |-> ok, err |-> err]

\* Lines 138-146.
CheckResult(outcome) ==
    IF outcome.kind = "err" THEN CheckReturn(FALSE, outcome.err)
    ELSE IF ~IsHealthy(outcome.status)
      THEN CheckReturn(FALSE, Error(<<"status code is not 200, current: ",
                                      FormatInt(outcome.status)>>))
    ELSE CheckReturn(TRUE, NilError)

(***************************************************************************)
(* The state machine.  One call is in progress at a time; its frame is     *)
(* kept until the caller has taken the returned value.                     *)
(*   e        the adapter the alerting engine holds                        *)
(*   pc       "idle", "search" (Query waits for the backend), "get" (Check *)
(*            waits for the backend), "return" (the call has returned) or  *)
(*            "panic" (Query panicked)                                     *)
(*   options  the options of the Query call in progress                    *)
(*   request  the request the call sent to the backend                     *)
(*   reply    the backend's answer to it                                   *)
(*   ret      what the call returned                                       *)
(***************************************************************************)
NoRequest == [kind |-> "none"]
NoReply == [kind |-> "none"]
NoReturn == [kind |-> "none"]

TransportError == Error(<<"dial tcp: connection refused">>)

Provider(ds) ==
    [url |-> ds.URL, username |-> ds.User, password |-> ds.Pass,
     ExternalLabels |-> ds.Labels]

Init ==
    /\ e \in {Provider(ds) : ds \in AlertDataSource}
    /\ pc = "idle"
    /\ options = NoOptions
    /\ request = NoRequest
    /\ reply = NoReply
    /\ ret = NoReturn

\* Lines 22-39: a data source is (re)configured.  When the client cannot be
\* created the error is returned and the engine keeps the adapter it has.
NewElasticSearchClient(ds, ok) ==
    /\ pc = "idle"
    /\ e' = IF ok THEN Provider(ds) ELSE e
    /\ ret' = [kind |-> "NewElasticSearchClient",
               err |-> IF ok THEN NilError ELSE TransportError]
    /\ pc' = "return"
    /\ UNCHANGED <<options, request, reply>>

\* Lines 45-97: Query up to the search request.
QueryCall(o) ==
    /\ pc = "idle"
    /\ options' = o
    /\ LET b == BuildQuery(o)
       IN  \/ /\ b.status = "err"
              /\ ret' = QueryReturn(<<>>, 0, b.err)
              /\ request' = NoRequest
              /\ pc' = "return"
           \/ /\ b.status = "panic"
              /\ ret' = NoReturn
              /\ request' = NoRequest
              /\ pc' = "panic"
           \/ /\ b.status = "ok"
              /\ ret' = NoReturn
              /\ request' = [kind |-> "search", index |-> GetIndexName(o), query |-> b.q]
              /\ pc' = "search"
    /\ UNCHANGED <<e, reply>>

\* Lines 93-126: the backend answers the search and Query returns.
SearchReply(outcome) ==
    /\ pc = "search"
    /\ reply' = outcome
    /\ ret' = Normalize(outcome)
    /\ pc' = "return"
    /\ UNCHANGED <<e, options, request>>

\* Lines 129-138: Check up to the health request.
CheckCall ==
    /\ pc = "idle"
    /\ request' = CheckRequest(e)
    /\ pc' = "get"
    /\ UNCHANGED <<e, options, reply, ret>>

\* Lines 138-146: the backend answers the health request and Check returns.
GetReply(outcome) ==
    /\ pc = "get"
    /\ reply' = outcome
    /\ ret' = CheckResult(outcome)
    /\ pc' = "return"
    /\ UNCHANGED <<e, options, request>>

\* Lines 149-151.
GetExternalLabels ==
    /\ pc = "idle"
    /\ ret' = [kind |-> "GetExternalLabels", labels |-> e.ExternalLabels]
    /\ pc' = "return"
    /\ UNCHANGED <<e, options, request, reply>>

\* The caller takes the returned value; nothing of the call is retained.
Return ==
    /\ pc = "return"
    /\ pc' = "idle"
    /\ options' = NoOptions
    /\ request' = NoRequest
    /\ reply' = NoReply
    /\ ret' = NoReturn
    /\ UNCHANGED e

SearchOutcomes(index) ==
    {[kind |-> "err", err |-> TransportError]}
      \cup {[kind |-> "hits",
             hits |-> [i \in DOMAIN srcs |-> SearchHit(index, i, srcs[i])]]
            : srcs \in HitSeqs}

GetOutcomes ==
    {[kind |-> "err", err |-> TransportError]}
      \cup {[kind |-> "http", status |-> c] : c \in StatusCodes}

Next ==
    \/ pc = "idle" /\ \E ds \in AlertDataSource, ok \in BOOLEAN : NewElasticSearchClient(ds, ok)
    \/ pc = "idle" /\ \E o \in LogQueryOptions : QueryCall(o)
    \/ pc = "search" /\ \E outcome \in SearchOutcomes(request.index) : SearchReply(outcome)
    \/ CheckCall
    \/ pc = "get" /\ \E outcome \in GetOutcomes : GetReply(outcome)
    \/ GetExternalLabels
    \/ Return

Spec == Init /\ [][Next]_vars

(***************************************************************************)
(* Properties.                                                             *)
(***************************************************************************)
\* What the properties say of a document, stated without the query objects.
InRange(d, o) == d.ts >= o.StartAt.v /\ d.ts <= o.EndAt.v

Contains(s, v) ==
    \E i \in 0..(Len(s) - Len(v)) : SubSeq(s, i + 1, i + Len(v)) = v

FilterHit(o, f, d) ==
    IF o.QueryWildcard = 0 THEN d[f.Field] = f.Value
    ELSE Contains(d[f.Field], f.Value)

Hits(o, d) == {i \in DOMAIN o.QueryFilter : FilterHit(o, o.QueryFilter[i], d)}

\* A field-filter query has been translated and sent to the backend.
FieldQuerySent ==
    /\ pc = "search"
    /\ options.QueryType = EsQueryTypeField
    /\ request.kind = "search"

QueryFailed ==
    /\ pc = "return"
    /\ ret.kind = "Query"
    /\ ~ret.err.isNil
    /\ ret.data = <<>>
    /\ ret.count = 0

UndefinedWildcard(o) == o.QueryWildcard \notin {0, 1}
UndefinedCondition(o) ==
    o.QueryFilterCondition \notin
        {EsFilterConditionOr, EsFilterConditionAnd, EsFilterConditionNot}

\* Malformed as the data model defines it.
Malformed(o) ==
    \/ o.QueryType = EsQueryTypeRawJson /\ o.RawJson = ""
    \/ o.QueryType \notin {EsQueryTypeRawJson, EsQueryTypeField}
    \/ o.QueryType = EsQueryTypeField /\ (UndefinedWildcard(o) \/ UndefinedCondition(o))

\* Malformed in a way Query inspects: the two enumerations of the field
\* mode are looked at only when there is a filter.
MalformedInspected(o) ==
    \/ o.QueryType = EsQueryTypeRawJson /\ o.RawJson = ""
    \/ o.QueryType \notin {EsQueryTypeRawJson, EsQueryTypeField}
    \/ /\ o.QueryType = EsQueryTypeField
       /\ Len(o.QueryFilter) > 0
       /\ (UndefinedWildcard(o) \/ UndefinedCondition(o))

\* C1 as stated: every malformed Query Model, an empty filter sequence
\* included, is rejected with an error and no search request is sent.
C1_MalformedAlwaysRejected ==
    (options # NoOptions /\ Malformed(options)) =>
        /\ request = NoRequest
        /\ (pc = "return" => QueryFailed)

\* C1, amended: an empty raw payload, an undefined query type and, when
\* there is at least one filter, an undefined wildcard mode or filter
\* condition make Query return (nil, 0, error) without sending a search
\* request.
C1_MalformedRejected ==
    (options # NoOptions /\ MalformedInspected(options)) =>
        /\ QueryFailed
        /\ request = NoRequest
        /\ reply = NoReply

C1_Witness ==
    /\ QueryFailed
    /\ options.QueryType = EsQueryTypeField
    /\ Len(options.QueryFilter) > 0
    /\ ~UndefinedWildcard(options)
    /\ UndefinedCondition(options)

\* C2: in field mode the translated query carries the time range as a must
\* clause, and no document outside [StartAt, EndAt] matches it, whatever
\* the condition and the filters.
C2_TimeRangeMandatory ==
    FieldQuerySent =>
        /\ request.query.kind = "bool"
        /\ \E i \in DOMAIN request.query.must :
              request.query.must[i] =
                  NewRangeQuery("@timestamp", options.StartAt.v, options.EndAt.v)
        /\ \A d \in Docs : ~InRange(d, options) => ~Matches(request.query, d)

C2_Witness ==
    /\ FieldQuerySent
    /\ options.QueryFilterCondition = EsFilterConditionOr
    /\ Len(options.QueryFilter) > 0
    /\ \E d \in Docs : ~InRange(d, options) /\ Hits(options, d) # {}

\* C3: with condition Not and at least one filter, a document in the time
\* range matches the translated query iff no filter matches it.
C3_NotMatchesNone ==
    (/\ FieldQuerySent
     /\ Len(options.QueryFilter) > 0
     /\ options.QueryFilterCondition = EsFilterConditionNot) =>
        \A d \in Docs :
            InRange(d, options) => (Matches(request.query, d) <=> Hits(options, d) = {})

C3_Witness ==
    /\ FieldQuerySent
    /\ Len(options.QueryFilter) = 2
    /\ options.QueryFilterCondition = EsFilterConditionNot
    /\ \E d \in Docs : /\ InRange(d, options)
                       /\ Cardinality(Hits(options, d)) = 1
                       /\ ~Matches(request.query, d)

\* C4: with condition Or and at least one filter, a document in the time
\* range matches the translated query iff at least one filter matches it.
C4_OrMatchesSome ==
    (/\ FieldQuerySent
     /\ Len(options.QueryFilter) > 0
     /\ options.QueryFilterCondition = EsFilterConditionOr) =>
        /\ request.query.minimumShouldMatch = <<1>>
        /\ \A d \in Docs :
              InRange(d, options) => (Matches(request.query, d) <=> Hits(options, d) # {})

C4_Witness ==
    /\ FieldQuerySent
    /\ Len(options.QueryFilter) > 0
    /\ options.QueryFilterCondition = EsFilterConditionOr
    /\ \E d \in Docs : /\ InRange(d, options)
                       /\ Hits(options, d) = {}
                       /\ ~Matches(request.query, d)

\* C5: with condition And and at least one filter, a document in the time
\* range matches the translated query iff every filter matches it.
C5_AndMatchesAll ==
    (/\ FieldQuerySent
     /\ Len(options.QueryFilter) > 0
     /\ options.QueryFilterCondition = EsFilterConditionAnd) =>
        \A d \in Docs :
            InRange(d, options) =>
                (Matches(request.query, d) <=> Hits(options, d) = DOMAIN options.QueryFilter)

C5_Witness ==
    /\ FieldQuerySent
    /\ Len(options.QueryFilter) = 2
    /\ options.QueryFilterCondition = EsFilterConditionAnd
    /\ \E d \in Docs : /\ InRange(d, options)
                       /\ Cardinality(Hits(options, d)) = 1
                       /\ ~Matches(request.query, d)

\* The decimal text of the status codes.
StatusText(c) ==
    CASE c = 200 -> "200" [] c = 201 -> "201" [] c = 401 -> "401" [] c = 500 -> "500"

CheckReturned == pc = "return" /\ ret.kind = "Check"

\* C6: Check returns (true, nil) iff the status is exactly 200; for any
\* other status it returns false and an error carrying that status; for a
\* transport failure it returns false and the transport error.
C6_CheckStatus ==
    CheckReturned =>
        /\ ret.ok <=> (reply.kind = "http" /\ reply.status = 200)
        /\ ret.ok <=> ret.err.isNil
        /\ (reply.kind = "http" /\ reply.status # 200) =>
              \E i \in DOMAIN ret.err.msg : ret.err.msg[i] = StatusText(reply.status)
        /\ reply.kind = "err" => ret.err = reply.err

C6_Witness ==
    /\ CheckReturned
    /\ reply.kind = "http"
    /\ reply.status = 401
    /\ ~ret.ok

QuerySucceeded == pc = "return" /\ ret.kind = "Query" /\ ret.err.isNil

SourceDocument(hit) ==
    IF hit._source.kind = "object" THEN hit._source.doc ELSE NilMap

\* C7: a successful Query returns exactly one batch, whose Message is the
\* source documents of the backend's hits in the backend's order, and the
\* count returned is the length of Message.
C7_OneBatchAllHits ==
    QuerySucceeded =>
        /\ reply.kind = "hits"
        /\ Len(ret.data) = 1
        /\ ret.data[1].ProviderName = ElasticSearchDsProviderName
        /\ Len(ret.data[1].Message) = Len(reply.hits)
        /\ \A i \in DOMAIN reply.hits :
              ret.data[1].Message[i] = SourceDocument(reply.hits[i])
        /\ ret.count = Len(ret.data[1].Message)

C7_Witness ==
    /\ QuerySucceeded
    /\ Len(reply.hits) = 2
    /\ reply.hits[1]._source # reply.hits[2]._source
    /\ ret.count = 2

WildcardRejected ==
    /\ pc = "return"
    /\ options.QueryType = EsQueryTypeField
    /\ Len(options.QueryFilter) > 0
    /\ UndefinedWildcard(options)

\* C8 as stated: the error of an undefined wildcard mode names the value.
C8_ErrorNamesWildcard ==
    WildcardRejected =>
        /\ QueryFailed
        /\ \E i \in DOMAIN ret.err.msg : ret.err.msg[i] = FormatInt(options.QueryWildcard)

\* C8, amended: with at least one filter, an undefined wildcard mode makes
\* Query fail with the fixed error "undefined QueryWildcard", which does
\* not name the value.
C8_WildcardError ==
    WildcardRejected =>
        /\ QueryFailed
        /\ ret.err.msg = <<"undefined QueryWildcard">>
        /\ request = NoRequest

C8_Witness == WildcardRejected /\ options.QueryWildcard = 2 /\ QueryFailed

\* base64.StdEncoding.DecodeString, the inverse of the encoding.
SextetOf(c) == CHOOSE n \in 0..63 : encodeStd[n + 1] = c

RECURSIVE DecodeString(_)
DecodeString(s) ==
    IF Len(s) < 4 THEN <<>>
    ELSE LET a == SextetOf(s[1])
             b == SextetOf(s[2])
         IN  IF s[3] = StdPadding THEN <<(a * 4) + (b \div 16)>>
             ELSE LET c == SextetOf(s[3])
                  IN  IF s[4] = StdPadding
                        THEN <<(a * 4) + (b \div 16), ((b % 16) * 16) + (c \div 4)>>
                        ELSE <<(a * 4) + (b \div 16), ((b % 16) * 16) + (c \div 4),
                               ((c % 4) * 64) + SextetOf(s[4])>>
                             \o DecodeString(SubSeq(s, 5, Len(s)))

HealthRequestSent == pc = "get" /\ request.kind = "get"
HasAuthorization == "Authorization" \in DOMAIN request.header

\* C9 as stated: the header is attached iff the credentials are not empty,
\* the password counting as a credential.
C9_HeaderIffCredentials ==
    HealthRequestSent =>
        (HasAuthorization <=> (e.username # <<>> \/ e.password # <<>>))

\* C9, amended: Check attaches the header "Basic " base64(username:password)
\* iff the username is not empty, whatever the password, and builds it from
\* the configuration of the adapter it is called on.
C9_HeaderIffUsername ==
    HealthRequestSent =>
        /\ HasAuthorization <=> e.username # <<>>
        /\ HasAuthorization =>
              /\ Head(request.header["Authorization"]) = "Basic "
              /\ DecodeString(Tail(request.header["Authorization"]))
                    = e.username \o <<58>> \o e.password
        /\ request.url = <<e.url, "/_cat/health">>

C9_Witness ==
    /\ HealthRequestSent
    /\ e.username # <<>>
    /\ e.password = <<>>
    /\ HasAuthorization

\* C10: a Query in field mode never panics: it returns a result or an error.
C10_NoPanic == options.QueryType = EsQueryTypeField => pc # "panic"

====
